---------------------------- MODULE Spec2Model ----------------------------
(***************************************************************************)
(* Dual-execution mutation layer of the Excel MCP server.                  *)
(*                                                                         *)
(* Every routed operation probes the live application (isExcelRunning,     *)
(* isFileOpenInExcel), then either drives the open workbook through        *)
(* AppleScript commands submitted by execAppleScriptWithRetry and saves it *)
(* with saveFileViaAppleScript, or loads, mutates and rewrites the file    *)
(* with ExcelJS (loadWorkbook / getSheet / saveWorkbook).                  *)
(*                                                                         *)
(* Texts (cell addresses, ranges, column letters) are sequences of         *)
(* one-character strings so that the regular expressions and the base-26   *)
(* arithmetic of the source are computed, not assumed.                     *)
(***************************************************************************)
EXTENDS Integers, Sequences, FiniteSets, TLC

(***************************************************************************)
(* Program constants                                                       *)
(***************************************************************************)
APPLESCRIPT_TIMEOUT == 10000
MAX_RETRIES == 3
RETRY_DELAY == 500
PROBE_RETRIES == 2
PROBE_TIMEOUT == 5000
MAX_COLUMN == 16384
MAX_ROW == 1048576

(***************************************************************************)
(* Bounds of the model                                                     *)
(***************************************************************************)
MaxCount == 2

MaxLen == 3

MaxValue == 2

\* the longest row addRow is called with
MaxRowLen == 30

\* writeRange: the most rows of `data`, and the most values in one of its rows
MaxRows == 2

MaxCols == 3

\* deleteRows: the most used rows of the sheet
MaxSheetRows == 4

(***************************************************************************)
(* Characters                                                              *)
(***************************************************************************)
UpperChars ==
  <<"A","B","C","D","E","F","G","H","I","J","K","L","M",
    "N","O","P","Q","R","S","T","U","V","W","X","Y","Z">>

DigitChars == <<"0","1","2","3","4","5","6","7","8","9">>

IsUpper(c) == \E i \in 1..26 : UpperChars[i] = c

IsDigit(c) == \E i \in 1..10 : DigitChars[i] = c

\* letter.charCodeAt(i) - 64
LetterValue(c) == CHOOSE i \in 1..26 : UpperChars[i] = c

DigitValue(c) == (CHOOSE i \in 1..10 : DigitChars[i] = c) - 1

(***************************************************************************)
(* Address codec of excel-applescript.ts and helpers.ts                    *)
(***************************************************************************)
RECURSIVE ColFold(_, _, _)
ColFold(letter, i, num) ==
  IF i > Len(letter) THEN num
  ELSE ColFold(letter, i + 1, num * 26 + LetterValue(letter[i]))

\* for (i = 0; i < letter.length; i++) num = num * 26 + (code - 64)
columnLetterToNumber(letter) == ColFold(letter, 1, 0)

RECURSIVE numberToColumnLetter(_)
\* while (num > 0) { remainder = (num - 1) % 26; letter = chr + letter; num = floor((num - 1) / 26) }
numberToColumnLetter(num) ==
  IF num > 0
  THEN numberToColumnLetter((num - 1) \div 26) \o <<UpperChars[((num - 1) % 26) + 1]>>
  ELSE <<>>

RECURSIVE ParseIntFold(_, _, _)
ParseIntFold(digits, i, acc) ==
  IF i > Len(digits) THEN acc
  ELSE ParseIntFold(digits, i + 1, acc * 10 + DigitValue(digits[i]))

\* parseInt on a text that the regular expression has shown to be all digits
parseInt(digits) == ParseIntFold(digits, 1, 0)

\* /^[A-Z]+\d+$/ : k uppercase letters followed by digits only, both non-empty
CellSplitPoints(address) ==
  { k \in 1..(Len(address) - 1) :
      /\ \A i \in 1..k : IsUpper(address[i])
      /\ \A i \in (k + 1)..Len(address) : IsDigit(address[i]) }

MatchesCell(address) == CellSplitPoints(address) # {}

CellLetters(address) ==
  SubSeq(address, 1, CHOOSE k \in CellSplitPoints(address) : TRUE)

CellDigits(address) ==
  SubSeq(address, (CHOOSE k \in CellSplitPoints(address) : TRUE) + 1, Len(address))

\* variant: the format is tested and the column and row limits are not
validateCellAddress_FormatOnly(address) ==
  IF ~MatchesCell(address) THEN "InvalidFormat" ELSE "ok"

\* validateCellAddress: "ok", or the error it throws
validateCellAddress(address) ==
  IF ~MatchesCell(address) THEN "InvalidFormat"
  ELSE IF columnLetterToNumber(CellLetters(address)) > MAX_COLUMN THEN "ColumnTooLarge"
  ELSE IF parseInt(CellDigits(address)) < 1 \/ parseInt(CellDigits(address)) > MAX_ROW
       THEN "RowOutOfBounds"
  ELSE "ok"

ColonPositions(range) == { i \in 1..Len(range) : range[i] = ":" }

\* /^[A-Z]+\d+:[A-Z]+\d+$/
MatchesRange(range) ==
  \E p \in ColonPositions(range) :
     /\ MatchesCell(SubSeq(range, 1, p - 1))
     /\ MatchesCell(SubSeq(range, p + 1, Len(range)))

RangeStart(range) ==
  SubSeq(range, 1, (CHOOSE p \in ColonPositions(range) : TRUE) - 1)

RangeEnd(range) ==
  SubSeq(range, (CHOOSE p \in ColonPositions(range) : TRUE) + 1, Len(range))

\* validateRange: "ok", or the error it throws
validateRange(range) ==
  IF ~MatchesRange(range) THEN "InvalidFormat"
  ELSE IF validateCellAddress(RangeStart(range)) # "ok"
       THEN validateCellAddress(RangeStart(range))
  ELSE validateCellAddress(RangeEnd(range))

\* helpers.parseRange: the start cell of the range, or the INVALID_RANGE error
parseRange(range) ==
  IF ~MatchesRange(range)
  THEN [error |-> "InvalidRange", startCol |-> 0, startRow |-> 0]
  ELSE [error |-> "ok",
        startCol |-> columnLetterToNumber(CellLetters(RangeStart(range))),
        startRow |-> parseInt(CellDigits(RangeStart(range)))]


RECURSIVE NumberToDigits(_)
\* `${n}` for a non-negative integer
NumberToDigits(n) ==
  IF n < 10 THEN <<DigitChars[n + 1]>>
  ELSE NumberToDigits(n \div 10) \o <<DigitChars[(n % 10) + 1]>>

(***************************************************************************)
(* Inputs: the texts and numbers the operations are called with            *)
(***************************************************************************)
A1 == <<"A","1">>
AA27 == <<"A","A","2","7">>
LowerA1 == <<"a","1">>
XFE1 == <<"X","F","E","1">>
A0 == <<"A","0">>
A1048577 == <<"A","1","0","4","8","5","7","7">>
A1B2 == <<"A","1",":","B","2">>
A0B2 == <<"A","0",":","B","2">>
A1XFE1 == <<"A","1",":","X","F","E","1">>
A1A1048577 == <<"A","1",":","A","1","0","4","8","5","7","7">>
ColA == <<"A">>
ColInjection == <<"A","\"","&">>

CellInputs == { A1, AA27, LowerA1, A1B2, XFE1, A0, A1048577 }

RangeInputs == { A1B2, A1, A0B2, A1XFE1, A1A1048577 }

\* the texts setFormula, formatCell and writeRange are exercised with
FewCellInputs == { A1, LowerA1, XFE1 }

FewRangeInputs == { A1B2, A1, A0B2, A1XFE1 }

TextArg(t) == [isNum |-> FALSE, num |-> 0, text |-> t]

NumArg(n) == [isNum |-> TRUE, num |-> n, text |-> <<>>]

ColumnInputs == { TextArg(ColA), TextArg(ColInjection), NumArg(1), NumArg(0) }

RowInputs == { NumArg(1), NumArg(0) }

NoArg == NumArg(0)

Paths ==
  { [dir |-> "a", base |-> "x.xlsx"],
    [dir |-> "b", base |-> "y.xlsx"] }

\* variant: the folder is kept, the whole path is the name asked for
basename_WholePath(filePath) == filePath.dir \o "/" \o filePath.base

\* path.basename
basename(filePath) == filePath.base

\* the documents the operations are called on; the user opens any of Paths
OpPaths == { [dir |-> "a", base |-> "x.xlsx"] }

CellOps == { "updateCell", "setFormula" }

RangeOps == { "mergeCells", "unmergeCells" }

RowCountOps == { "deleteRows", "insertRows" }

ColumnCountOps == { "deleteColumns", "insertColumns" }

OpKinds ==
  CellOps \cup RangeOps \cup RowCountOps \cup ColumnCountOps
    \cup { "formatCell", "writeRange", "addRow", "setColumnWidth", "setRowHeight" }

\* n, m: lengths of the data (rows and columns), number of format properties, or count;
\* backup: the createBackup argument
OpInputs ==
  [kind : {"updateCell"}, path : OpPaths, arg : { TextArg(t) : t \in CellInputs },
   n : {1}, m : {1}, backup : BOOLEAN]
    \cup [kind : {"setFormula"}, path : OpPaths, arg : { TextArg(t) : t \in FewCellInputs },
          n : {1}, m : {1}, backup : BOOLEAN]
    \cup [kind : {"formatCell"}, path : OpPaths, arg : { TextArg(t) : t \in FewCellInputs },
          n : 0..MaxCount, m : {1}, backup : BOOLEAN]
    \cup [kind : {"writeRange"}, path : OpPaths, arg : { TextArg(t) : t \in FewRangeInputs },
          n : 1..MaxCount, m : 1..MaxCount, backup : BOOLEAN]
    \cup [kind : RangeOps, path : OpPaths, arg : { TextArg(t) : t \in RangeInputs }, n : {1}, m : {1}, backup : BOOLEAN]
    \cup [kind : {"addRow"}, path : OpPaths, arg : {NoArg}, n : 0..MaxCount, m : {1}, backup : BOOLEAN]
    \cup [kind : {"setColumnWidth"}, path : OpPaths, arg : ColumnInputs, n : {1}, m : {1}, backup : BOOLEAN]
    \cup [kind : {"setRowHeight"}, path : OpPaths, arg : RowInputs, n : {1}, m : {1}, backup : BOOLEAN]
    \cup [kind : RowCountOps, path : OpPaths, arg : RowInputs, n : 0..MaxCount, m : {1}, backup : BOOLEAN]
    \cup [kind : ColumnCountOps, path : OpPaths, arg : ColumnInputs, n : 0..MaxCount, m : {1}, backup : BOOLEAN]

NoOp == [kind |-> "none", path |-> CHOOSE p \in OpPaths : TRUE, arg |-> NoArg, n |-> 0, m |-> 0,
         backup |-> FALSE]

(***************************************************************************)
(* Per-operation facts of the routers (write.ts, format.ts, operations.ts, *)
(* advanced.ts) and of the live adapters (excel-applescript.ts)            *)
(***************************************************************************)
\* variant: every router catches what its live branch throws and falls through
HasFallback_Everywhere(kind) == TRUE

\* the routers that wrap the live branch in try { ... } catch { fall through }
HasFallback(kind) ==
  kind \in { "deleteRows", "deleteColumns", "insertRows", "insertColumns", "unmergeCells" }

\* the method field of the success result built after the ExcelJS branch
FileMethodField(kind) ==
  IF kind \in { "updateCell", "writeRange", "addRow", "setFormula",
                "formatCell", "setColumnWidth", "setRowHeight", "mergeCells" }
  THEN "exceljs"
  ELSE "absent"

\* what the router does in its live branch before it calls the adapter
RouterLiveError(o) ==
  IF o.kind = "writeRange" THEN parseRange(o.arg.text).error ELSE "ok"

\* writeRange: `${columnNumberToLetter(startCol)}${startRow}`
StartCellOf(range) ==
  numberToColumnLetter(parseRange(range).startCol)
    \o NumberToDigits(parseRange(range).startRow)

\* the validation a ...ViaAppleScript function runs first: "ok" or the error thrown
LiveValidation(o) ==
  IF o.kind \in { "updateCell", "setFormula", "formatCell" }
  THEN validateCellAddress(o.arg.text)
  ELSE IF o.kind = "writeRange" THEN validateCellAddress(StartCellOf(o.arg.text))
  ELSE IF o.kind \in { "mergeCells", "unmergeCells" } THEN validateRange(o.arg.text)
  ELSE "ok"

Repeat(x, k) == [i \in 1..(IF k > 0 THEN k ELSE 0) |-> x]

\* the commands a ...ViaAppleScript function submits, in order
LiveCommands(o) ==
  IF o.kind = "addRow" THEN <<"read">> \o Repeat("mutate", o.n)
  ELSE IF o.kind = "writeRange" THEN Repeat("mutate", o.n * o.m)
  ELSE IF o.kind \in RowCountOps \cup ColumnCountOps \cup {"formatCell"}
       THEN Repeat("mutate", o.n)
  ELSE <<"mutate">>


(***************************************************************************)
(* State                                                                   *)
(***************************************************************************)
VARIABLES
  appRunning,     \* the live application's process exists
  openWorkbooks,  \* the documents open in the live application
  pc,             \* position of the operation in flight
  op,             \* the operation in flight and its arguments
  excelRunning,   \* router local: value returned by isExcelRunning
  fileOpen,       \* router local: excelRunning ? isFileOpenInExcel(path) : false
  ex,             \* the execAppleScriptWithRetry call in flight
  cmdIdx,         \* live adapter: index of the command being submitted
  cmdLog,         \* kinds of the commands handed to the executor by this operation
  launches,       \* processes launched (attempts) by this operation
  seen,           \* what the successful probe attempts of this operation observed
  liveApplied,    \* mutation commands of this operation the application executed
  liveSaved,      \* the application executed this operation's save command
  fileLoaded,     \* the file path of this operation loaded the document
  diskWritten,    \* the file path of this operation rewrote the document
  valErr,         \* validation error thrown in this operation, or "none"
  liveErr,        \* error of a live command that exhausted its retries, or "none"
  result,         \* what the operation returns or throws to its caller
  route,          \* the branches this operation entered, in order ("live", "file")
  prevLive,       \* the previous operation entered the live branch
  fileLog,        \* what the ExcelJS branch of this operation did to the file system
  input,          \* text functions: the text a function is applied to
  applied,        \* text functions: the function that was applied, or "none"
  output,         \* text functions: what the function produced
  disk,           \* concurrent calls: the document stored at the path
  calls           \* concurrent calls: position, loaded model and result of each call

vars ==
  << appRunning, openWorkbooks, pc, op, excelRunning, fileOpen, ex, cmdIdx, cmdLog,
     launches, seen, liveApplied, liveSaved, fileLoaded, diskWritten, valErr, liveErr,
     result, route, prevLive, fileLog, input, applied, output, disk, calls >>

mainVars ==
  << appRunning, openWorkbooks, pc, op, excelRunning, fileOpen, ex, cmdIdx, cmdLog,
     launches, seen, liveApplied, liveSaved, fileLoaded, diskWritten, valErr, liveErr,
     result, route, prevLive, fileLog >>

textVars == << input, applied, output >>

concVars == << disk, calls >>

envVars == << appRunning, openWorkbooks >>

IdleEx ==
  [kind |-> "none", retries |-> 0, timeout |-> 0, attempt |-> 0, status |-> "idle",
   out |-> "", error |-> "none", log |-> <<>>, sleeps |-> <<>>, via |-> "none"]

NoResult == [status |-> "none", method |-> "none", error |-> "none"]

NotSeen == [running |-> "unobserved", open |-> "unobserved"]

\* loads: calls of loadWorkbook; backup: outcome of the backup step of saveWorkbook;
\* writes: calls of workbook.xlsx.writeFile
NoFileLog == [loads |-> 0, backup |-> "none", writes |-> 0]

NoText == <<>>

NoCalls == <<>>

NoDisk == <<>>

MainInit ==
  /\ appRunning \in BOOLEAN
  /\ openWorkbooks = {}
  /\ pc = "idle"
  /\ op = NoOp
  /\ excelRunning = FALSE
  /\ fileOpen = FALSE
  /\ ex = IdleEx
  /\ cmdIdx = 0
  /\ cmdLog = <<>>
  /\ launches = 0
  /\ seen = NotSeen
  /\ liveApplied = 0
  /\ liveSaved = FALSE
  /\ fileLoaded = FALSE
  /\ diskWritten = FALSE
  /\ valErr = "none"
  /\ liveErr = "none"
  /\ result = NoResult
  /\ route = <<>>
  /\ prevLive = FALSE
  /\ fileLog = NoFileLog

\* no text function is being applied
TextIdle ==
  /\ input = NoText
  /\ applied = "none"
  /\ output = NoText

\* no concurrent calls are in flight
ConcIdle ==
  /\ disk = NoDisk
  /\ calls = NoCalls

Init == MainInit /\ TextIdle /\ ConcIdle

(***************************************************************************)
(* The user and the live application                                       *)
(***************************************************************************)
ExcelLaunch ==
  /\ ~appRunning
  /\ appRunning' = TRUE
  /\ UNCHANGED << openWorkbooks, pc, op, excelRunning, fileOpen, ex, cmdIdx, cmdLog,
                  launches, seen, liveApplied, liveSaved, fileLoaded, diskWritten,
                  valErr, liveErr, result, route, prevLive >>
  /\ UNCHANGED << fileLog, textVars, concVars >>

ExcelQuit ==
  /\ appRunning
  /\ appRunning' = FALSE
  /\ openWorkbooks' = {}
  /\ UNCHANGED << pc, op, excelRunning, fileOpen, ex, cmdIdx, cmdLog, launches, seen,
                  liveApplied, liveSaved, fileLoaded, diskWritten, valErr, liveErr,
                  result, route, prevLive >>
  /\ UNCHANGED << fileLog, textVars, concVars >>

UserOpens(p) ==
  /\ appRunning
  /\ p \notin openWorkbooks
  /\ openWorkbooks' = openWorkbooks \cup {p}
  /\ UNCHANGED << appRunning, pc, op, excelRunning, fileOpen, ex, cmdIdx, cmdLog,
                  launches, seen, liveApplied, liveSaved, fileLoaded, diskWritten,
                  valErr, liveErr, result, route, prevLive >>
  /\ UNCHANGED << fileLog, textVars, concVars >>

UserCloses(p) ==
  /\ p \in openWorkbooks
  /\ openWorkbooks' = openWorkbooks \ {p}
  /\ UNCHANGED << appRunning, pc, op, excelRunning, fileOpen, ex, cmdIdx, cmdLog,
                  launches, seen, liveApplied, liveSaved, fileLoaded, diskWritten,
                  valErr, liveErr, result, route, prevLive >>
  /\ UNCHANGED << fileLog, textVars, concVars >>

\* name of every workbook
OpenNames == { w.base : w \in openWorkbooks }

\* a workbook named like the operation's document is open in the running application
AddressableAs(filePath) == appRunning /\ basename(filePath) \in OpenNames

\* the probe and the adapters of the operation in hand: basename(filePath) of its path
Addressable == AddressableAs(op.path)

(***************************************************************************)
(* execAppleScriptWithRetry                                                *)
(***************************************************************************)
\* variant: the first failed attempt is rethrown at once
ShouldRethrow_FirstFailure(attempt, retries) == TRUE

\* if (attempt === retries) throw error
ShouldRethrow(attempt, retries) == attempt = retries

\* variant: the same delay after every failed attempt
BackoffDelay_Constant(attempt) == RETRY_DELAY

\* setTimeout(resolve, RETRY_DELAY * attempt)
BackoffDelay(attempt) == RETRY_DELAY * attempt

\* variant: an attempt killed at the timeout is not caught, the call aborts
CatchesAndRetries_NotTimeout(e) == e # "timeout"

\* catch (error: any): every rejection of execAsync takes the same branch, the kill at
\* the timeout (error.killed) included
CatchesAndRetries(e) == TRUE

\* entry: for (attempt = 1; attempt <= retries; ...) ... throw 'Max retries exceeded'
ExecCall(kind, retries, timeout) ==
  [kind |-> kind, retries |-> retries, timeout |-> timeout, attempt |-> 1,
   status |-> IF 1 <= retries THEN "running" ELSE "raised",
   out |-> "", error |-> IF 1 <= retries THEN "none" ELSE "MaxRetriesExceeded",
   log |-> <<>>, sleeps |-> <<>>, via |-> "executor"]

\* await execAsync(`osascript -e '...'`) called outside the executor: one launch, no
\* timeout, the rejection thrown as it is
DirectCall(kind) ==
  [kind |-> kind, retries |-> 1, timeout |-> 0, attempt |-> 1, status |-> "running",
   out |-> "", error |-> "none", log |-> <<>>, sleeps |-> <<>>, via |-> "launcher"]

\* variant: the read of the used range calls execAsync itself
SubmitsThroughExecutor_ReadsDirect(kind) == kind # "read"

\* every probe and every ...ViaAppleScript function: await execAppleScriptWithRetry(script)
SubmitsThroughExecutor(kind) == TRUE

\* a probe or an adapter function hands its script over
Submit(kind, retries, timeout) ==
  IF SubmitsThroughExecutor(kind) THEN ExecCall(kind, retries, timeout) ELSE DirectCall(kind)

\* stdout of a command that ran to completion
CommandOutputs(kind) ==
  IF kind = "probeRunning" THEN IF appRunning THEN { "true" } ELSE { "false", "" }
  ELSE IF kind = "probeOpen" THEN IF Addressable THEN { "true" } ELSE { "false", "" }
  ELSE IF kind = "read" THEN { "1", "" }
  ELSE { "" }

\* whether the application can execute the command at all
CanExecute(kind) ==
  IF kind = "probeRunning" THEN TRUE
  ELSE IF kind = "probeOpen" THEN appRunning
  ELSE Addressable

\* one attempt: execAsync resolves, return stdout.trim()
ExecAttemptSucceeds ==
  /\ ex.status = "running"
  /\ CanExecute(ex.kind)
  /\ \E o \in CommandOutputs(ex.kind) :
       ex' = [ex EXCEPT !.status = "returned", !.out = o,
                        !.log = Append(@, [res |-> "ok", out |-> o])]
  /\ launches' = launches + 1
  /\ seen' = IF ex.kind = "probeRunning"
             THEN [seen EXCEPT !.running = IF appRunning THEN "yes" ELSE "no"]
             ELSE IF ex.kind = "probeOpen"
                  THEN [seen EXCEPT !.open = IF Addressable THEN "yes" ELSE "no"]
             ELSE seen
  /\ liveApplied' = IF ex.kind = "mutate" THEN liveApplied + 1 ELSE liveApplied
  /\ liveSaved' = IF ex.kind = "save" THEN TRUE ELSE liveSaved
  /\ UNCHANGED << appRunning, openWorkbooks, pc, op, excelRunning, fileOpen, cmdIdx,
                  cmdLog, fileLoaded, diskWritten, valErr, liveErr, result, route, prevLive >>
  /\ UNCHANGED << fileLog, textVars, concVars >>

\* one attempt: execAsync rejects (non-zero exit, or killed at the timeout)
ExecAttemptFails(e) ==
  /\ ex.status = "running"
  /\ launches' = launches + 1
  /\ ex' = IF ShouldRethrow(ex.attempt, ex.retries) \/ ~CatchesAndRetries(e)
           THEN [ex EXCEPT !.status = "raised", !.error = e,
                           !.log = Append(@, [res |-> e, out |-> ""])]
           ELSE [ex EXCEPT !.attempt = @ + 1, !.log = Append(@, [res |-> e, out |-> ""]),
                           !.sleeps = Append(@, BackoffDelay(ex.attempt))]
  /\ UNCHANGED << appRunning, openWorkbooks, pc, op, excelRunning, fileOpen, cmdIdx,
                  cmdLog, seen, liveApplied, liveSaved, fileLoaded, diskWritten, valErr,
                  liveErr, result, route, prevLive >>
  /\ UNCHANGED << fileLog, textVars, concVars >>


(***************************************************************************)
(* LiveSessionProbe                                                        *)
(***************************************************************************)
\* variant: no catch around the command, its error propagates
isExcelRunning_NoCatch(call) ==
  IF call.status = "returned"
  THEN [raised |-> FALSE, value |-> (call.out = "true")]
  ELSE [raised |-> TRUE, value |-> FALSE]

\* try { result = await exec(script, 2, 5000); return result === 'true' } catch { return false }
isExcelRunning(call) ==
  IF call.status = "returned"
  THEN [raised |-> FALSE, value |-> (call.out = "true")]
  ELSE [raised |-> FALSE, value |-> FALSE]

\* variant: the catch block answers true
isFileOpenInExcel_TrueOnFailure(call) ==
  IF call.status = "returned"
  THEN [raised |-> FALSE, value |-> (call.out = "true")]
  ELSE [raised |-> FALSE, value |-> TRUE]

\* same shape, asking the application for the names of its open workbooks
isFileOpenInExcel(call) ==
  IF call.status = "returned"
  THEN [raised |-> FALSE, value |-> (call.out = "true")]
  ELSE [raised |-> FALSE, value |-> FALSE]

(***************************************************************************)
(* ExecutionRouter: updateCell, writeRange, addRow, setFormula, formatCell,*)
(* setColumnWidth, setRowHeight, mergeCells, deleteRows, deleteColumns,    *)
(* insertRows, insertColumns, unmergeCells                                 *)
(***************************************************************************)
\* variant: the open probe is queried whatever the running probe returned
QueriesOpenProbe_Always(running) == TRUE

\* fileOpen = excelRunning ? await isFileOpenInExcel(filePath) : false
QueriesOpenProbe(running) == running

\* variant: the live branch is taken whatever the probes returned
TakesLivePath_Always(open) == TRUE

\* if (fileOpen) { live branch } else { ExcelJS branch }
TakesLivePath(open) == open

Finished(call) == call.status \in { "returned", "raised" }

Failure(e) == [status |-> "error", method |-> "none", error |-> e]

Success(m) == [status |-> "success", method |-> m, error |-> "none"]

\* the operation is called: first statement is await isExcelRunning()
StartOp(o) ==
  /\ pc = "idle"
  /\ op' = o
  /\ pc' = "probeRunning"
  /\ ex' = Submit("probeRunning", PROBE_RETRIES, PROBE_TIMEOUT)
  /\ cmdLog' = <<"probeRunning">>
  /\ excelRunning' = FALSE
  /\ fileOpen' = FALSE
  /\ cmdIdx' = 0
  /\ launches' = 0
  /\ seen' = NotSeen
  /\ liveApplied' = 0
  /\ liveSaved' = FALSE
  /\ fileLoaded' = FALSE
  /\ diskWritten' = FALSE
  /\ valErr' = "none"
  /\ liveErr' = "none"
  /\ result' = NoResult
  /\ route' = <<>>
  /\ fileLog' = NoFileLog
  /\ UNCHANGED << envVars, prevLive >>
  /\ UNCHANGED << textVars, concVars >>

\* isExcelRunning returns; the open probe is queried only when it returned true
ProbeRunningReturns ==
  /\ pc = "probeRunning"
  /\ Finished(ex)
  /\ LET r == isExcelRunning(ex) IN
       IF r.raised
       THEN /\ result' = Failure("ProbeRaised")
            /\ pc' = "done"
            /\ UNCHANGED << excelRunning, fileOpen, ex, cmdLog, route >>
       ELSE /\ excelRunning' = r.value
            /\ result' = result
            /\ IF QueriesOpenProbe(r.value)
               THEN /\ ex' = Submit("probeOpen", PROBE_RETRIES, PROBE_TIMEOUT)
                    /\ cmdLog' = Append(cmdLog, "probeOpen")
                    /\ pc' = "probeOpen"
                    /\ UNCHANGED << fileOpen, route >>
               ELSE /\ fileOpen' = FALSE
                    /\ pc' = IF TakesLivePath(FALSE) THEN "live" ELSE "fileLoad"
                    /\ route' = IF TakesLivePath(FALSE) THEN <<"live">> ELSE <<"file">>
                    /\ UNCHANGED << ex, cmdLog >>
  /\ UNCHANGED << appRunning, openWorkbooks, op, cmdIdx, launches, seen, liveApplied,
                  liveSaved, fileLoaded, diskWritten, valErr, liveErr, prevLive >>
  /\ UNCHANGED << fileLog, textVars, concVars >>

\* isFileOpenInExcel returns; if (fileOpen) chooses the branch
ProbeOpenReturns ==
  /\ pc = "probeOpen"
  /\ Finished(ex)
  /\ LET r == isFileOpenInExcel(ex) IN
       IF r.raised
       THEN /\ result' = Failure("ProbeRaised")
            /\ pc' = "done"
            /\ UNCHANGED << fileOpen, route >>
       ELSE /\ fileOpen' = r.value
            /\ result' = result
            /\ pc' = IF TakesLivePath(r.value) THEN "live" ELSE "fileLoad"
            /\ route' = IF TakesLivePath(r.value) THEN <<"live">> ELSE <<"file">>
  /\ UNCHANGED << appRunning, openWorkbooks, op, excelRunning, ex, cmdIdx, cmdLog,
                  launches, seen, liveApplied, liveSaved, fileLoaded, diskWritten,
                  valErr, liveErr, prevLive >>
  /\ UNCHANGED << fileLog, textVars, concVars >>

\* where an exception thrown inside the live branch lands
AfterLiveThrow(kind) == IF HasFallback(kind) THEN "fileLoad" ELSE "done"

ResultAfterLiveThrow(kind, e) == IF HasFallback(kind) THEN NoResult ELSE Failure(e)

RouteAfterLiveThrow(kind, r) == IF HasFallback(kind) THEN Append(r, "file") ELSE r

\* the live branch up to its first await: validation, then the first command
LiveStart ==
  /\ pc = "live"
  /\ LET e == IF RouterLiveError(op) # "ok" THEN RouterLiveError(op)
              ELSE LiveValidation(op)
         cmds == LiveCommands(op)
     IN IF e # "ok"
        THEN /\ valErr' = e
             /\ pc' = AfterLiveThrow(op.kind)
             /\ result' = ResultAfterLiveThrow(op.kind, e)
             /\ route' = RouteAfterLiveThrow(op.kind, route)
             /\ UNCHANGED << ex, cmdIdx, cmdLog >>
        ELSE /\ UNCHANGED << valErr, result, route >>
             /\ IF Len(cmds) = 0
                THEN /\ ex' = Submit("save", MAX_RETRIES, APPLESCRIPT_TIMEOUT)
                     /\ cmdLog' = Append(cmdLog, "save")
                     /\ cmdIdx' = cmdIdx
                     /\ pc' = "liveSave"
                ELSE /\ ex' = Submit(cmds[1], MAX_RETRIES, APPLESCRIPT_TIMEOUT)
                     /\ cmdLog' = Append(cmdLog, cmds[1])
                     /\ cmdIdx' = 1
                     /\ pc' = "liveCmd"
  /\ UNCHANGED << appRunning, openWorkbooks, op, excelRunning, fileOpen, launches, seen,
                  liveApplied, liveSaved, fileLoaded, diskWritten, liveErr, prevLive >>
  /\ UNCHANGED << fileLog, textVars, concVars >>

\* variant: the adapter returns after its first command
MoreCommands_StopAfterFirst(idx, cmds) == FALSE

\* the loops of the adapters (for each row, each cell, each format command) go on while
\* a command is left; the router awaits saveFileViaAppleScript after the adapter returned
MoreCommands(idx, cmds) == idx < Len(cmds)

\* a command of the live adapter returns or throws; next command, or the save
LiveCmdReturns ==
  /\ pc = "liveCmd"
  /\ Finished(ex)
  /\ LET cmds == LiveCommands(op) IN
       IF ex.status = "raised"
       THEN /\ liveErr' = ex.error
            /\ pc' = AfterLiveThrow(op.kind)
            /\ result' = ResultAfterLiveThrow(op.kind, "LiveCommandFailed")
            /\ route' = RouteAfterLiveThrow(op.kind, route)
            /\ UNCHANGED << ex, cmdIdx, cmdLog >>
       ELSE /\ UNCHANGED << liveErr, result, route >>
            /\ IF MoreCommands(cmdIdx, cmds)
               THEN /\ ex' = Submit(cmds[cmdIdx + 1], MAX_RETRIES, APPLESCRIPT_TIMEOUT)
                    /\ cmdLog' = Append(cmdLog, cmds[cmdIdx + 1])
                    /\ cmdIdx' = cmdIdx + 1
                    /\ pc' = "liveCmd"
               ELSE /\ ex' = Submit("save", MAX_RETRIES, APPLESCRIPT_TIMEOUT)
                    /\ cmdLog' = Append(cmdLog, "save")
                    /\ cmdIdx' = cmdIdx
                    /\ pc' = "liveSave"
  /\ UNCHANGED << appRunning, openWorkbooks, op, excelRunning, fileOpen, launches, seen,
                  liveApplied, liveSaved, fileLoaded, diskWritten, valErr, prevLive >>
  /\ UNCHANGED << fileLog, textVars, concVars >>

\* saveFileViaAppleScript returns or throws
SaveReturns ==
  /\ pc = "liveSave"
  /\ Finished(ex)
  /\ IF ex.status = "raised"
     THEN /\ liveErr' = ex.error
          /\ pc' = AfterLiveThrow(op.kind)
          /\ result' = ResultAfterLiveThrow(op.kind, "LiveCommandFailed")
          /\ route' = RouteAfterLiveThrow(op.kind, route)
     ELSE /\ liveErr' = liveErr
          /\ pc' = "done"
          /\ result' = Success("applescript")
          /\ route' = route
  /\ UNCHANGED << appRunning, openWorkbooks, op, excelRunning, fileOpen, ex, cmdIdx,
                  cmdLog, launches, seen, liveApplied, liveSaved, fileLoaded,
                  diskWritten, valErr, prevLive >>
  /\ UNCHANGED << fileLog, textVars, concVars >>

(***************************************************************************)
(* FileMutationAdapter: loadWorkbook, getSheet, the mutation, saveWorkbook *)
(***************************************************************************)
\* loadWorkbook and getSheet: the document model, or the error thrown
LoadOutcomes == { "ok", "FileNotFound", "ReadError", "SheetNotFound" }

\* workbook.xlsx.writeFile inside saveWorkbook
SaveOutcomes == { "ok", "WriteError" }

AllUpper(t) == Len(t) >= 1 /\ \A i \in 1..Len(t) : IsUpper(t[i])

\* the address, range, row or column argument lies within the sheet limits
InputWellFormed(o) ==
  IF o.kind \in CellOps \cup {"formatCell"} THEN validateCellAddress(o.arg.text) = "ok"
  ELSE IF o.kind \in RangeOps \cup {"writeRange"} THEN validateRange(o.arg.text) = "ok"
  ELSE IF o.kind \in ColumnCountOps \cup {"setColumnWidth"}
       THEN IF o.arg.isNum THEN o.arg.num \in 1..MAX_COLUMN
            ELSE AllUpper(o.arg.text) /\ columnLetterToNumber(o.arg.text) <= MAX_COLUMN
  ELSE IF o.kind \in RowCountOps \cup {"setRowHeight"} THEN o.arg.num \in 1..MAX_ROW
  ELSE TRUE

\* the in-memory mutation between load and save: writeRange runs parseRange; the
\* document library decides by itself what it does with an argument outside the limits
MutateOutcomes(o) ==
  IF o.kind = "writeRange" /\ parseRange(o.arg.text).error # "ok"
  THEN { parseRange(o.arg.text).error }
  ELSE IF InputWellFormed(o) THEN { "ok" }
  ELSE { "ok", "LibraryError" }

\* variant: a failed load is attempted again
AfterFileThrow_Retry(kind) == "fileLoad"

\* the ExcelJS branch stands outside every try block: what it throws reaches the caller
AfterFileThrow(kind) == "done"

\* await loadWorkbook; getSheet; mutate the model (synchronous up to saveWorkbook)
FileLoad ==
  /\ pc = "fileLoad"
  /\ fileLog' = [fileLog EXCEPT !.loads = @ + 1]
  /\ \E l \in LoadOutcomes :
       IF l # "ok"
       THEN /\ fileLoaded' = fileLoaded
            /\ valErr' = valErr
            /\ result' = Failure(l)
            /\ pc' = AfterFileThrow(op.kind)
       ELSE /\ fileLoaded' = TRUE
            /\ \E mu \in MutateOutcomes(op) :
                 IF mu # "ok"
                 THEN /\ result' = Failure(mu)
                      /\ valErr' = IF mu = "InvalidRange" THEN mu ELSE valErr
                      /\ pc' = "done"
                 ELSE /\ result' = result
                      /\ valErr' = valErr
                      /\ pc' = "fileSave"
  /\ UNCHANGED << appRunning, openWorkbooks, op, excelRunning, fileOpen, ex, cmdIdx,
                  cmdLog, launches, seen, liveApplied, liveSaved, diskWritten, liveErr, route, prevLive >>
  /\ UNCHANGED << textVars, concVars >>

\* saveWorkbook, the backup step: if (createBackup) try { access; copyFile } catch {}
BackupOutcomes(createBackup) ==
  IF createBackup THEN { "copied", "accessFails", "copyFails" } ELSE { "notRequested" }

\* variant: a backup step that fails ends saveWorkbook with the write error
WritesAfterBackupStep_OnlyWhenCopied(b) == b \in { "notRequested", "copied" }

\* the inner catch swallows the failure of the backup step; writeFile follows in every case
WritesAfterBackupStep(b) == TRUE

\* await saveWorkbook; return the success result of the ExcelJS branch
FileSave ==
  /\ pc = "fileSave"
  /\ \E b \in BackupOutcomes(op.backup) :
       IF WritesAfterBackupStep(b)
       THEN /\ fileLog' = [fileLog EXCEPT !.backup = b, !.writes = @ + 1]
            /\ \E w \in SaveOutcomes :
                 IF w = "ok"
                 THEN /\ diskWritten' = TRUE
                      /\ result' = Success(FileMethodField(op.kind))
                 ELSE /\ diskWritten' = diskWritten
                      /\ result' = Failure(w)
       ELSE /\ fileLog' = [fileLog EXCEPT !.backup = b]
            /\ diskWritten' = diskWritten
            /\ result' = Failure("WriteError")
  /\ pc' = "done"
  /\ UNCHANGED << appRunning, openWorkbooks, op, excelRunning, fileOpen, ex, cmdIdx,
                  cmdLog, launches, seen, liveApplied, liveSaved, fileLoaded, valErr,
                  liveErr, route, prevLive >>
  /\ UNCHANGED << textVars, concVars >>

\* the caller receives the result; nothing of the invocation is kept for the next one
Return ==
  /\ pc = "done"
  /\ pc' = "idle"
  /\ op' = NoOp
  /\ excelRunning' = FALSE
  /\ fileOpen' = FALSE
  /\ ex' = IdleEx
  /\ cmdIdx' = 0
  /\ cmdLog' = <<>>
  /\ launches' = 0
  /\ seen' = NotSeen
  /\ liveApplied' = 0
  /\ liveSaved' = FALSE
  /\ fileLoaded' = FALSE
  /\ diskWritten' = FALSE
  /\ valErr' = "none"
  /\ liveErr' = "none"
  /\ result' = NoResult
  /\ route' = <<>>
  /\ prevLive' = (\E i \in 1..Len(route) : route[i] = "live")
  /\ fileLog' = NoFileLog
  /\ UNCHANGED envVars
  /\ UNCHANGED << textVars, concVars >>

Next ==
  \/ ExcelLaunch
  \/ ExcelQuit
  \/ \E p \in Paths : UserOpens(p)
  \/ \E p \in Paths : UserCloses(p)
  \/ \E o \in OpInputs : StartOp(o)
  \/ ExecAttemptSucceeds
  \/ \E e \in { "exit", "timeout" } : ExecAttemptFails(e)
  \/ ProbeRunningReturns
  \/ ProbeOpenReturns
  \/ LiveStart
  \/ LiveCmdReturns
  \/ SaveReturns
  \/ FileLoad
  \/ FileSave
  \/ Return

Spec == Init /\ [][Next]_vars

(***************************************************************************)
(* The operations on a document that is never open, while the user opens   *)
(* and closes other documents, one of them with the same file name         *)
(***************************************************************************)
\* the documents the user opens: another folder's x.xlsx, and y.xlsx
TwinDocs ==
  { [dir |-> "b", base |-> "x.xlsx"],
    [dir |-> "b", base |-> "y.xlsx"] }

\* updateCell and deleteRows on a/x.xlsx
TwinOps == { o \in OpInputs : o.kind \in { "updateCell", "deleteRows" } /\ ~o.backup }

TwinNext ==
  \/ ExcelLaunch
  \/ ExcelQuit
  \/ \E p \in TwinDocs : UserOpens(p)
  \/ \E p \in TwinDocs : UserCloses(p)
  \/ \E o \in TwinOps : StartOp(o)
  \/ ExecAttemptSucceeds
  \/ \E e \in { "exit", "timeout" } : ExecAttemptFails(e)
  \/ ProbeRunningReturns
  \/ ProbeOpenReturns
  \/ LiveStart
  \/ LiveCmdReturns
  \/ SaveReturns
  \/ FileLoad
  \/ FileSave
  \/ Return

TwinSpec == Init /\ [][TwinNext]_vars

(***************************************************************************)
(* One call of execAppleScriptWithRetry on its own: the callers' arguments, *)
(* the attempts, and the live application changing underneath              *)
(***************************************************************************)
\* the (retries, timeout) the probes and the adapter functions call the executor with
ExecCalls ==
  { <<"probeRunning", PROBE_RETRIES, PROBE_TIMEOUT>>,
    <<"probeOpen", PROBE_RETRIES, PROBE_TIMEOUT>>,
    <<"read", MAX_RETRIES, APPLESCRIPT_TIMEOUT>>,
    <<"mutate", MAX_RETRIES, APPLESCRIPT_TIMEOUT>>,
    <<"save", MAX_RETRIES, APPLESCRIPT_TIMEOUT>> }

\* execAppleScriptWithRetry(script, retries, timeout) is called
Call(c) ==
  /\ ex = IdleEx
  /\ ex' = ExecCall(c[1], c[2], c[3])
  /\ UNCHANGED << appRunning, openWorkbooks, pc, op, excelRunning, fileOpen, cmdIdx,
                  cmdLog, launches, seen, liveApplied, liveSaved, fileLoaded, diskWritten,
                  valErr, liveErr, result, route, prevLive >>
  /\ UNCHANGED << fileLog, textVars, concVars >>

\* one attempt settles: execAsync resolves, or rejects (at the latest when the child
\* is killed at the timeout)
Attempt ==
  \/ ExecAttemptSucceeds
  \/ \E e \in { "exit", "timeout" } : ExecAttemptFails(e)

ExecNext ==
  \/ ExcelLaunch
  \/ ExcelQuit
  \/ \E p \in Paths : UserOpens(p)
  \/ \E p \in Paths : UserCloses(p)
  \/ \E c \in ExecCalls : Call(c)
  \/ ExecAttemptSucceeds
  \/ \E e \in { "exit", "timeout" } : ExecAttemptFails(e)

\* execAsync with the timeout option always settles, and the sleep between two attempts
\* ends: an attempt that can be made is made
ExecSpec == Init /\ [][ExecNext]_vars /\ WF_vars(Attempt)

TypeOK ==
  /\ appRunning \in BOOLEAN
  /\ openWorkbooks \subseteq Paths
  /\ pc \in { "idle", "probeRunning", "probeOpen", "live", "liveCmd", "liveSave",
              "fileLoad", "fileSave", "done" }
  /\ excelRunning \in BOOLEAN
  /\ fileOpen \in BOOLEAN
  /\ ex.status \in { "idle", "running", "returned", "raised" }
  /\ result.status \in { "none", "success", "error" }


(***************************************************************************)
(* Text functions of excel-applescript.ts and write.ts, applied to every   *)
(* text over TextChars of length up to MaxLen                              *)
(***************************************************************************)
TextChars == { "a", "=", "'", "\"", "\\", " " }

Texts == UNION { [1..n -> TextChars] : n \in 0..MaxLen }

RECURSIVE ReplaceAll(_, _, _)
\* str.replace(/c/g, r)
ReplaceAll(str, c, r) ==
  IF str = <<>> THEN <<>>
  ELSE (IF Head(str) = c THEN r ELSE <<Head(str)>>) \o ReplaceAll(Tail(str), c, r)

\* variant: the script is put between the single quotes as it is
ShellQuote_None(script) == script

\* script.replace(/'/g, "'\\''")
ShellQuote(script) == ReplaceAll(script, "'", <<"'", "\\", "'", "'">>)

Osascript == <<"o","s","a","s","c","r","i","p","t">>

DashE == <<"-","e">>

\* `osascript -e '${escapedScript}'`
CommandLine(script) ==
  Osascript \o <<" ">> \o DashE \o <<" ", "'">> \o ShellQuote(script) \o <<"'">>

RECURSIVE ShellParse(_, _, _, _, _, _)
\* /bin/sh splitting the command line into words: quote removal of '...' and "...",
\* backslash outside quotes and before " and \ inside "...", blanks between words
ShellParse(line, i, mode, word, inWord, words) ==
  IF i > Len(line)
  THEN [ok |-> mode = "plain", words |-> IF inWord THEN Append(words, word) ELSE words]
  ELSE LET c == line[i] IN
    IF mode = "single"
    THEN IF c = "'" THEN ShellParse(line, i + 1, "plain", word, TRUE, words)
         ELSE ShellParse(line, i + 1, "single", Append(word, c), TRUE, words)
    ELSE IF mode = "double"
    THEN IF c = "\"" THEN ShellParse(line, i + 1, "plain", word, TRUE, words)
         ELSE IF c = "\\" /\ i < Len(line) /\ line[i + 1] \in { "\"", "\\" }
              THEN ShellParse(line, i + 2, "double", Append(word, line[i + 1]), TRUE, words)
         ELSE ShellParse(line, i + 1, "double", Append(word, c), TRUE, words)
    ELSE IF c = " "
         THEN ShellParse(line, i + 1, "plain", <<>>, FALSE,
                         IF inWord THEN Append(words, word) ELSE words)
         ELSE IF c = "'" THEN ShellParse(line, i + 1, "single", word, TRUE, words)
         ELSE IF c = "\"" THEN ShellParse(line, i + 1, "double", word, TRUE, words)
         ELSE IF c = "\\" /\ i < Len(line)
              THEN ShellParse(line, i + 2, "plain", Append(word, line[i + 1]), TRUE, words)
         ELSE ShellParse(line, i + 1, "plain", Append(word, c), TRUE, words)

\* the argument vector the shell started by execAsync hands to the launched process
ShellWords(line) == ShellParse(line, 1, "plain", <<>>, FALSE, <<>>)

\* variant: the quotes are escaped before the backslashes
escapeAppleScriptString_QuotesFirst(str) ==
  ReplaceAll(ReplaceAll(ReplaceAll(str, "\"", <<"\\", "\"">>), "'", <<"\\", "'">>),
             "\\", <<"\\", "\\">>)

\* str.replace(/\\/g, '\\\\').replace(/"/g, '\\"').replace(/'/g, "\\'")
escapeAppleScriptString(str) ==
  ReplaceAll(ReplaceAll(ReplaceAll(str, "\\", <<"\\", "\\">>), "\"", <<"\\", "\"">>),
             "'", <<"\\", "'">>)

StartsWith(t, c) == Len(t) >= 1 /\ t[1] = c

\* write.ts setFormula: formula.startsWith('=') ? formula.substring(1) : formula
cleanFormula(formula) == IF StartsWith(formula, "=") THEN Tail(formula) ELSE formula

\* setFormulaViaAppleScript: the body of the literal in
\* `set formula of range "${cellAddress}" to "${escapedFormula}"`
FormulaLiteral(formula) == escapeAppleScriptString(formula)

TextInit ==
  /\ MainInit
  /\ ConcIdle
  /\ input \in Texts
  /\ applied = "none"
  /\ output = NoText

\* one attempt of execAppleScriptWithRetry on the script `input`: the script is quoted
\* and the command line is launched; a failed attempt is followed by the next one
Launch ==
  /\ applied \in { "none", "launch" }
  /\ Len(output) < MAX_RETRIES
  /\ applied' = "launch"
  /\ output' = Append(output, ShellWords(CommandLine(input)))
  /\ UNCHANGED << input, mainVars, concVars >>

\* escapeAppleScriptString(input)
Escape ==
  /\ applied = "none"
  /\ applied' = "escape"
  /\ output' = escapeAppleScriptString(input)
  /\ UNCHANGED << input, mainVars, concVars >>

\* the live branch of setFormula: setFormulaViaAppleScript(..., cleanFormula)
SetFormulaLive ==
  /\ applied = "none"
  /\ applied' = "setFormula"
  /\ output' = FormulaLiteral(cleanFormula(input))
  /\ UNCHANGED << input, mainVars, concVars >>

TextNext ==
  \/ Launch
  \/ Escape
  \/ SetFormulaLive

TextSpec == TextInit /\ [][TextNext]_vars


(***************************************************************************)
(* Two calls of updateCell on the same document, both on the ExcelJS       *)
(* branch (the live application is not running): each await is a point     *)
(* where the other call may run                                            *)
(***************************************************************************)
Cells == { "A1", "B2" }

Values == 1..MaxValue

CallIds == { 1, 2 }

\* the document at the path before the calls: every cell empty
StoredAtFirst == [c \in Cells |-> 0]

IdleCall == [pc |-> "idle", cell |-> "A1", value |-> 0, model |-> StoredAtFirst,
             result |-> "none"]

ConcInit ==
  /\ MainInit
  /\ TextIdle
  /\ disk = StoredAtFirst
  /\ calls = [st |-> [i \in CallIds |-> IdleCall], log |-> <<>>]

\* updateCell(filePath, sheetName, cellAddress, value) is called; the probes answer false
Invoke(i, c, v) ==
  /\ calls.st[i].pc = "idle"
  /\ calls' = [calls EXCEPT !.st[i] = [IdleCall EXCEPT !.pc = "called", !.cell = c,
                                                       !.value = v]]
  /\ UNCHANGED << disk, mainVars, textVars >>

\* variant: a call waits while another call holds a loaded document
MayLoad_OneAtATime(i) == \A j \in CallIds \ {i} : calls.st[j].pc # "loaded"

\* nothing in loadWorkbook or in the routers makes a call wait for another one
MayLoad(i) == TRUE

\* workbook.xlsx.readFile: the whole document as stored now; then the cell is assigned
\* in the loaded model
LoadAndMutate(i) ==
  /\ calls.st[i].pc = "called"
  /\ MayLoad(i)
  /\ \E l \in LoadOutcomes :
       IF l = "ok"
       THEN calls' = [calls EXCEPT
                        !.st[i].pc = "loaded",
                        !.st[i].model = [disk EXCEPT ![calls.st[i].cell] = calls.st[i].value],
                        !.log = Append(@, <<i, "load">>)]
       ELSE calls' = [calls EXCEPT !.st[i].pc = "done", !.st[i].result = l]
  /\ UNCHANGED << disk, mainVars, textVars >>

\* variant: only the cell of the call is written into the stored document
WrittenDocument_OnlyTheCell(stored, call) == [stored EXCEPT ![call.cell] = call.value]

\* workbook.xlsx.writeFile(filePath): the stored document becomes the loaded model
WrittenDocument(stored, call) == call.model

\* saveWorkbook, then the success result
SaveAndReturn(i) ==
  /\ calls.st[i].pc = "loaded"
  /\ \E w \in SaveOutcomes :
       IF w = "ok"
       THEN /\ disk' = WrittenDocument(disk, calls.st[i])
            /\ calls' = [calls EXCEPT !.st[i].pc = "done", !.st[i].result = "success",
                                      !.log = Append(@, <<i, "save">>)]
       ELSE /\ disk' = disk
            /\ calls' = [calls EXCEPT !.st[i].pc = "done", !.st[i].result = w]
  /\ UNCHANGED << mainVars, textVars >>

ConcNext ==
  \/ \E i \in CallIds, c \in Cells, v \in Values : Invoke(i, c, v)
  \/ \E i \in CallIds : LoadAndMutate(i)
  \/ \E i \in CallIds : SaveAndReturn(i)

ConcSpec == ConcInit /\ [][ConcNext]_vars


(***************************************************************************)
(* The commands the sheet adapters issue, and the cells both paths of      *)
(* writeRange and deleteRows act on                                        *)
(***************************************************************************)
RECURSIVE LetterLoop(_, _)
\* helpers.ts: while (num > 0) { remainder = (num - 1) % 26;
\* letter = String.fromCharCode(65 + remainder) + letter; num = floor((num - 1) / 26) }
LetterLoop(num, letter) ==
  IF num > 0
  THEN LetterLoop((num - 1) \div 26, <<UpperChars[((num - 1) % 26) + 1]>> \o letter)
  ELSE letter

\* variant: one letter only, the 27th column named A again
columnNumberToLetter_SingleLetter(num) == <<UpperChars[((num - 1) % 26) + 1]>>

\* helpers.ts columnNumberToLetter: let letter = ''; the loop; return letter
columnNumberToLetter(num) == LetterLoop(num, <<>>)

\* what the live application answers to `return count of (get used range)`
ReadOutputs == { <<>>, <<"0">>, <<"3">>, <<"1","2">> }

\* parseInt(lastRowResult) || 0
parseIntOrZero(t) == IF t = <<>> THEN 0 ELSE parseInt(t)

SheetInput(fn, lens, range, read, startRow, count, rows) ==
  [fn |-> fn, lens |-> lens, range |-> range, read |-> read,
   startRow |-> startRow, count |-> count, rows |-> rows]

\* addRow: a row of 0..MaxRowLen values
AddRowInputs ==
  { SheetInput("addRow", <<n>>, <<>>, r, 0, 0, 0) : n \in 0..MaxRowLen, r \in ReadOutputs }

NoCommands == [status |-> "none", reads |-> 0, cmds |-> <<>>]

\* variant: the column letter wraps after Z
AddRowColumn_Wraps(i) == <<UpperChars[((i - 1) % 26) + 1]>>

\* addRowViaAppleScript: const col = numberToColumnLetter(i + 1), i from 0
AddRowColumn(i) == numberToColumnLetter(i)

\* addRowViaAppleScript: the write commands of a row of n values after the read
\* answered `read`, each with the index of its value and its target address
AddRowCommands(n, read) ==
  [i \in 1..n |->
     [i |-> 1, j |-> i,
      target |-> AddRowColumn(i) \o NumberToDigits(parseIntOrZero(read) + 1)]]

\* the commands acknowledged when command number `failing` exhausts its retries
\* (0: none does); the adapter rethrows at the first one that does
Acknowledged(cmds, failing) ==
  IF failing = 0 THEN cmds ELSE SubSeq(cmds, 1, failing - 1)

\* addRowViaAppleScript(filePath, sheetName, rowData)
AddRowLive ==
  /\ applied = "none"
  /\ input.fn = "addRow"
  /\ applied' = "addRowLive"
  /\ \/ output' = [status |-> "raised", reads |-> 0, cmds |-> <<>>]
     \/ \E failing \in 0..input.lens[1] :
          output' = [status |-> IF failing = 0 THEN "ok" ELSE "raised",
                     reads |-> 1,
                     cmds |-> Acknowledged(AddRowCommands(input.lens[1], input.read),
                                           failing)]
  /\ UNCHANGED << input, mainVars, concVars >>

Y2Z3 == <<"Y","2",":","Z","3">>

B2B2 == <<"B","2",":","B","2">>

\* writeRange: the range argument (rangeSchema) and the row lengths of `data`
WriteRanges == { A1B2, Y2Z3, B2B2 }

WriteShapes == UNION { [1..k -> 0..MaxCols] : k \in 0..MaxRows }

WriteRangeInputs ==
  { SheetInput("writeRange", lens, range, <<>>, 0, 0, 0) :
      lens \in WriteShapes, range \in WriteRanges }

\* variant: row and column offsets exchanged
WriteTarget_Transposed(startRow, startCol, rowIdx, colIdx) ==
  [row |-> startRow + colIdx, col |-> startCol + rowIdx]

\* targetRow = startRow + rowIdx; targetCol = startCol + colIdx
\* (write.ts: sheet.getRow(startRow + rowIndex).getCell(startCol + colIndex))
WriteTarget(startRow, startCol, rowIdx, colIdx) ==
  [row |-> startRow + rowIdx, col |-> startCol + colIdx]

\* one data cell: its indices in `data`, its target and the address of the command
WriteCommand(startRow, startCol, rowIdx, colIdx, live) ==
  LET t == WriteTarget(startRow, startCol, rowIdx, colIdx)
  IN  [i |-> rowIdx, j |-> colIdx, row |-> t.row, col |-> t.col,
       target |-> IF live THEN numberToColumnLetter(t.col) \o NumberToDigits(t.row)
                  ELSE <<>>]

RECURSIVE WriteLoop(_, _, _, _, _)
\* for (rowIdx = 0; rowIdx < data.length; rowIdx++)
\*   for (colIdx = 0; colIdx < row.length; colIdx++) ...
\* (write.ts: data.forEach((row, rowIndex) => row.forEach((value, colIndex) => ...)))
WriteLoop(lens, startRow, startCol, rowIdx, live) ==
  IF rowIdx >= Len(lens) THEN <<>>
  ELSE [c \in 1..lens[rowIdx + 1] |->
          WriteCommand(startRow, startCol, rowIdx, c - 1, live)]
       \o WriteLoop(lens, startRow, startCol, rowIdx + 1, live)

\* writeRangeViaAppleScript(filePath, sheetName, startCell, data): the commands, or
\* the error of validateCellAddress(startCell)
writeRangeViaAppleScript(startCell, lens) ==
  IF validateCellAddress(startCell) # "ok"
  THEN [error |-> validateCellAddress(startCell), cmds |-> <<>>]
  ELSE [error |-> "ok",
        cmds |-> WriteLoop(lens, parseInt(CellDigits(startCell)),
                           columnLetterToNumber(CellLetters(startCell)), 0, TRUE)]

\* the live branch of writeRange: parseRange, the start cell rebuilt with
\* columnNumberToLetter, then the adapter
WriteRangeLive ==
  /\ applied = "none"
  /\ input.fn = "writeRange"
  /\ applied' = "writeRangeLive"
  /\ LET p == parseRange(input.range)
         a == writeRangeViaAppleScript(
                columnNumberToLetter(p.startCol) \o NumberToDigits(p.startRow),
                input.lens)
     IN  IF p.error # "ok" \/ a.error # "ok"
         THEN output' = [status |-> "raised", reads |-> 0, cmds |-> <<>>]
         ELSE \E failing \in 0..Len(a.cmds) :
                output' = [status |-> IF failing = 0 THEN "ok" ELSE "raised",
                           reads |-> 0,
                           cmds |-> Acknowledged(a.cmds, failing)]
  /\ UNCHANGED << input, mainVars, concVars >>

\* the ExcelJS branch of writeRange: the cells assigned in the loaded workbook, which
\* saveWorkbook then writes to the document (or fails to)
WriteRangeFile ==
  /\ applied = "none"
  /\ input.fn = "writeRange"
  /\ applied' = "writeRangeFile"
  /\ LET p == parseRange(input.range)
     IN  IF p.error # "ok"
         THEN output' = [status |-> "raised", reads |-> 0, cmds |-> <<>>]
         ELSE \E w \in SaveOutcomes :
                output' = [status |-> IF w = "ok" THEN "ok" ELSE "raised",
                           reads |-> 0,
                           cmds |-> IF w = "ok"
                                    THEN WriteLoop(input.lens, p.startRow, p.startCol,
                                                   0, FALSE)
                                    ELSE <<>>]
  /\ UNCHANGED << input, mainVars, concVars >>

\* deleteRows: a sheet whose used rows are 1..rows, each row named by the number it
\* had before the call; the rows below are empty
InitialSheet(rows) == [k \in 1..rows |-> k]

DeleteRowsInputs ==
  { SheetInput("deleteRows", <<>>, <<>>, <<>>, startRow, count, rows) :
      startRow \in 1..(MaxSheetRows + 1), count \in 0..(MaxCount + 1),
      rows \in 0..MaxSheetRows }

\* Excel's `delete row r` of a worksheet: the row goes and the rows below move up by one
DeleteRow(sheet, r) ==
  IF r > Len(sheet) THEN sheet
  ELSE SubSeq(sheet, 1, r - 1) \o SubSeq(sheet, r + 1, Len(sheet))

\* ExcelJS worksheet.spliceRows(start, count): the rows start .. start + count - 1 go and
\* the rows below move up by count
spliceRows(sheet, start, count) ==
  IF start > Len(sheet) THEN sheet
  ELSE SubSeq(sheet, 1, start - 1) \o SubSeq(sheet, start + count, Len(sheet))

\* variant: the i-th command deletes the row i below the start row
DeleteTarget_Advancing(startRow, i) == startRow + i

\* deleteRowsViaAppleScript: `delete row ${startRow}` in every round of the loop
DeleteTarget(startRow, i) == startRow

\* deleteRowsViaAppleScript: for (i = 0; i < count; i++) delete row ...
DeleteCommands(startRow, count) == [k \in 1..count |-> DeleteTarget(startRow, k - 1)]

RECURSIVE ApplyDeletes(_, _, _)
\* the sheet of the live document after the commands cmds[k..]
ApplyDeletes(sheet, cmds, k) ==
  IF k > Len(cmds) THEN sheet
  ELSE ApplyDeletes(DeleteRow(sheet, cmds[k]), cmds, k + 1)

\* the live branch of deleteRows: deleteRowsViaAppleScript, which rethrows at the
\* first command that exhausts its retries
DeleteRowsLive ==
  /\ applied = "none"
  /\ input.fn = "deleteRows"
  /\ applied' = "deleteRowsLive"
  /\ \E failing \in 0..input.count :
       LET done == Acknowledged(DeleteCommands(input.startRow, input.count), failing)
       IN  output' = [status |-> IF failing = 0 THEN "ok" ELSE "raised",
                      reads |-> 0,
                      cmds |-> done,
                      sheet |-> ApplyDeletes(InitialSheet(input.rows), done, 1)]
  /\ UNCHANGED << input, mainVars, concVars >>

\* the ExcelJS branch of deleteRows: sheet.spliceRows(startRow, count), then saveWorkbook
DeleteRowsFile ==
  /\ applied = "none"
  /\ input.fn = "deleteRows"
  /\ applied' = "deleteRowsFile"
  /\ \E w \in SaveOutcomes :
       output' = [status |-> IF w = "ok" THEN "ok" ELSE "raised",
                  reads |-> 0,
                  cmds |-> <<>>,
                  sheet |-> IF w = "ok"
                            THEN spliceRows(InitialSheet(input.rows), input.startRow,
                                            input.count)
                            ELSE InitialSheet(input.rows)]
  /\ UNCHANGED << input, mainVars, concVars >>

SheetInputs == AddRowInputs \cup WriteRangeInputs \cup DeleteRowsInputs

SheetInit ==
  /\ MainInit
  /\ ConcIdle
  /\ input \in SheetInputs
  /\ applied = "none"
  /\ output = NoCommands

SheetNext ==
  \/ AddRowLive
  \/ WriteRangeLive
  \/ WriteRangeFile
  \/ DeleteRowsLive
  \/ DeleteRowsFile

SheetSpec == SheetInit /\ [][SheetNext]_vars


(***************************************************************************)
(* The value formatter, the address validation and the column codec,       *)
(* each applied to one argument                                            *)
(***************************************************************************)
CodecInput(fn, isNum, num, text) ==
  [fn |-> fn, isNum |-> isNum, num |-> num, text |-> text]

\* the numbers a cell value is drawn from
FormatNumbers == (0 - MaxValue)..MaxValue \cup { 42 }

DigitTexts == { <<"4","2">>, <<"0">>, <<"1">> }

FormatInputs ==
  { CodecInput("format", TRUE, n, <<>>) : n \in FormatNumbers }
  \cup { CodecInput("format", FALSE, 0, t) : t \in Texts \cup DigitTexts }

\* String(value) of an integer
NumberText(n) == IF n < 0 THEN <<"-">> \o NumberToDigits(0 - n) ELSE NumberToDigits(n)

\* variant: every value is escaped and quoted, a number like a text
formatValueForAppleScript_AlwaysQuoted(value) ==
  <<"\"">> \o escapeAppleScriptString(IF value.isNum THEN NumberText(value.num)
                                      ELSE value.text) \o <<"\"">>

\* formatValueForAppleScript: typeof value === 'number' ? String(value)
\*                            : `"${escapeAppleScriptString(value)}"`
formatValueForAppleScript(value) ==
  IF value.isNum THEN NumberText(value.num)
  ELSE <<"\"">> \o escapeAppleScriptString(value.text) \o <<"\"">>

XFD1 == <<"X","F","D","1">>

A1048576 == <<"A","1","0","4","8","5","7","6">>

A01 == <<"A","0","1">>

AddressChars == { "A", "Z", "a", "0", "1", "9", ":" }

\* the texts an address argument is drawn from: every text of up to MaxLen of the
\* characters above, and addresses at both sides of the column and row limits
AddressTexts ==
  UNION { [1..n -> AddressChars] : n \in 0..MaxLen }
  \cup { A1, AA27, LowerA1, A1B2, XFD1, XFE1, A0, A01, A1048576, A1048577 }

ValidateInputs == { CodecInput("validate", FALSE, 0, t) : t \in AddressTexts }

RoundTripInputs == { CodecInput("roundTrip", TRUE, n, <<>>) : n \in 1..MAX_COLUMN }

CodecInputs == FormatInputs \cup ValidateInputs \cup RoundTripInputs

CodecInit ==
  /\ MainInit
  /\ ConcIdle
  /\ input \in CodecInputs
  /\ applied = "none"
  /\ output = NoText

\* formatValueForAppleScript(input)
Format ==
  /\ applied = "none"
  /\ input.fn = "format"
  /\ applied' = "format"
  /\ output' = formatValueForAppleScript(input)
  /\ UNCHANGED << input, mainVars, concVars >>

\* validateCellAddress(input): what it throws, and the column and row it decoded
Validate ==
  /\ applied = "none"
  /\ input.fn = "validate"
  /\ applied' = "validate"
  /\ output' = [result |-> validateCellAddress(input.text),
                column |-> IF MatchesCell(input.text)
                           THEN columnLetterToNumber(CellLetters(input.text)) ELSE 0,
                row    |-> IF MatchesCell(input.text)
                           THEN parseInt(CellDigits(input.text)) ELSE 0]
  /\ UNCHANGED << input, mainVars, concVars >>

\* columnLetterToNumber(columnNumberToLetter(n)) of helpers.ts, and the same with the
\* pair of excel-applescript.ts
RoundTrip ==
  /\ applied = "none"
  /\ input.fn = "roundTrip"
  /\ applied' = "roundTrip"
  /\ output' = [letter  |-> columnNumberToLetter(input.num),
                back    |-> columnLetterToNumber(columnNumberToLetter(input.num)),
                adapter |-> columnLetterToNumber(numberToColumnLetter(input.num))]
  /\ UNCHANGED << input, mainVars, concVars >>

CodecNext ==
  \/ Format
  \/ Validate
  \/ RoundTrip

CodecSpec == CodecInit /\ [][CodecNext]_vars


(***************************************************************************)
(* Properties                                                              *)
(***************************************************************************)
PastProbes == pc \in { "live", "liveCmd", "liveSave", "fileLoad", "fileSave", "done" }

LiveKinds == { "read", "mutate", "save" }

LiveCommandsSubmitted == { i \in 1..Len(cmdLog) : cmdLog[i] \in LiveKinds }

EnteredLive == \E i \in 1..Len(route) : route[i] = "live"

EnteredFile == \E i \in 1..Len(route) : route[i] = "file"

FileErrors == (LoadOutcomes \cup SaveOutcomes \cup { "LibraryError", "InvalidRange" }) \ { "ok" }

\* C1: when both probes reported true and a live command failed on every retry, the
\* operation still runs the file path and returns success with method exceljs if the
\* file path succeeds; the caller sees an error only if the file path failed too.
C1_LiveFailureFallsBackToFile ==
  (pc = "done" /\ liveErr # "none") =>
     /\ EnteredFile
     /\ result.status = "success" => (diskWritten /\ result.method = "exceljs")
     /\ result.status = "error" => result.error \in FileErrors

\* C2: every success result carries a method field naming the path that performed the
\* mutation: applescript only when every live command and the live save succeeded,
\* exceljs whenever the file path did the load-modify-save.
C2_MethodNamesThePath ==
  (pc = "done" /\ result.status = "success") =>
     /\ result.method \in { "applescript", "exceljs" }
     /\ result.method = "applescript" =>
          (liveSaved /\ liveErr = "none" /\ ~diskWritten
             /\ liveApplied = Cardinality({ i \in 1..Len(cmdLog) : cmdLog[i] = "mutate" }))
     /\ diskWritten => result.method = "exceljs"

\* C3 as stated: when the running probe reports false, the executor is not invoked
\* at all for that operation.
C3_NoExecutorCallWhenNotRunning ==
  (PastProbes /\ ~excelRunning) => (cmdLog = <<>> /\ launches = 0)

\* C3 amended: when the running probe reports false, the operation is routed to the
\* file path and the only executor call of the operation is the running probe's own
\* command (at most 2 attempts): the open probe is not queried and no live mutation
\* and no live save command is submitted.
C3_OnlyRunningProbeWhenNotRunning ==
  (PastProbes /\ ~excelRunning) =>
     /\ cmdLog = <<"probeRunning">>
     /\ launches <= PROBE_RETRIES
     /\ route = <<"file">>
     /\ liveApplied = 0
     /\ ~liveSaved

C3_Witness ==
  /\ pc = "done"
  /\ ~excelRunning
  /\ seen.running = "no"
  /\ result.status = "success"
  /\ diskWritten

\* C4: within one invocation the live path is attempted if and only if the running
\* probe returned true and then the open probe returned true; a false probe is a
\* routing signal, not an error: the file path runs and no live mutation or save
\* command is issued.
C4_LiveIffBothProbesTrue ==
  PastProbes =>
     /\ EnteredLive <=> (excelRunning /\ fileOpen)
     /\ fileOpen => (Len(cmdLog) >= 2 /\ cmdLog[1] = "probeRunning" /\ cmdLog[2] = "probeOpen")
     /\ ~(excelRunning /\ fileOpen) =>
          /\ route = <<"file">>
          /\ LiveCommandsSubmitted = {}
          /\ result.status = "error" => result.error \in FileErrors

C4_Witness ==
  /\ pc = "done"
  /\ excelRunning
  /\ ~fileOpen
  /\ cmdLog = <<"probeRunning", "probeOpen">>
  /\ result.status = "success"

\* C5: each invocation runs the probes afresh and is routed by what its own probes
\* observed, whatever the previous invocation did and however the user opened or
\* closed the document in between.
C5_RoutedByOwnProbes ==
  PastProbes =>
     /\ cmdLog # <<>> /\ cmdLog[1] = "probeRunning"
     /\ seen.running # "unobserved" => launches >= 1
     /\ (route[1] = "live") <=> (seen.running = "yes" /\ seen.open = "yes")

C5_Witness ==
  /\ prevLive
  /\ pc = "done"
  /\ route = <<"file">>
  /\ seen.running = "yes"
  /\ seen.open = "no"
  /\ result.status = "success"


Failed(call) == { i \in 1..Len(call.log) : call.log[i].res # "ok" }

\* C6: execAppleScriptWithRetry returns the output of the first attempt that succeeds,
\* makes at most `retries` attempts, and raises the error of the last attempt only
\* after all `retries` attempts have failed.
C6_ReturnsFirstSuccessRaisesAfterLast ==
  /\ Len(ex.log) <= ex.retries
  /\ \A i \in 1..(Len(ex.log) - 1) : ex.log[i].res # "ok"
  /\ ex.status = "running" => (Failed(ex) = 1..Len(ex.log) /\ ex.attempt = Len(ex.log) + 1)
  /\ ex.status = "returned" =>
       (ex.log[Len(ex.log)].res = "ok" /\ ex.out = ex.log[Len(ex.log)].out)
  /\ ex.status = "raised" =>
       /\ Len(ex.log) = ex.retries
       /\ Failed(ex) = 1..ex.retries
       /\ ex.error = ex.log[ex.retries].res

C6_Witness ==
  /\ ex.status = "raised"
  /\ ex.retries = MAX_RETRIES
  /\ ex.error = "timeout"
  /\ ex.log[1].res = "exit"

\* C7: after failed attempt k (k < retries) the executor sleeps RETRY_DELAY * k before
\* attempt k + 1, so the delays strictly increase (500 ms, then 1000 ms); no sleep
\* follows the final failed attempt or a successful attempt.
C7_LinearBackoffBetweenAttempts ==
  /\ \A k \in 1..Len(ex.sleeps) : ex.sleeps[k] = 500 * k
  /\ \A k \in 1..(Len(ex.sleeps) - 1) : ex.sleeps[k] < ex.sleeps[k + 1]
  /\ ex.status = "running" => Len(ex.sleeps) = Len(ex.log)
  /\ ex.status \in { "returned", "raised" } => Len(ex.sleeps) = Len(ex.log) - 1
  /\ (ex.status = "returned" /\ Len(ex.log) = 3) => ex.sleeps = <<500, 1000>>

C7_Witness ==
  /\ ex.status = "returned"
  /\ Len(ex.log) = 3
  /\ ex.sleeps = <<500, 1000>>

\* C8: isExcelRunning and isFileOpenInExcel never raise: when their command fails on
\* every one of its at most 2 attempts (error or 5 s timeout), or its output is
\* anything other than 'true', they return false.
C8_ProbesReturnFalseOnFailure ==
  /\ result.error # "ProbeRaised"
  /\ ex.kind \in { "probeRunning", "probeOpen" } =>
       (ex.retries = 2 /\ ex.timeout = 5000 /\ Len(ex.log) <= 2)
  /\ (pc = "probeRunning" /\ Finished(ex)) =>
       /\ ~isExcelRunning(ex).raised
       /\ (ex.status = "raised" \/ ex.out # "true") => ~isExcelRunning(ex).value
  /\ (pc = "probeOpen" /\ Finished(ex)) =>
       /\ ~isFileOpenInExcel(ex).raised
       /\ (ex.status = "raised" \/ ex.out # "true") => ~isFileOpenInExcel(ex).value
  /\ (PastProbes /\ ex.kind = "probeRunning") =>
       ((ex.status = "raised" \/ ex.out # "true") => ~excelRunning)
  /\ (PastProbes /\ ex.kind = "probeOpen") =>
       ((ex.status = "raised" \/ ex.out # "true") => ~fileOpen)

C8_Witness ==
  /\ pc = "fileLoad"
  /\ ex.kind = "probeOpen"
  /\ ex.status = "raised"
  /\ Len(ex.log) = 2
  /\ excelRunning
  /\ ~fileOpen

\* the argument handed to the ...ViaAppleScript function lies within the sheet limits
AdapterArgWellFormed(o) ==
  IF o.kind = "writeRange" THEN validateCellAddress(StartCellOf(o.arg.text)) = "ok"
  ELSE InputWellFormed(o)

\* C9: every live mutation function validates its cell address, range, row or column
\* argument before building any command text, and when validation fails it submits
\* no command to the executor.
C9_NoCommandForInvalidArgument ==
  (\E i \in 1..Len(cmdLog) : cmdLog[i] \in { "read", "mutate" }) =>
     AdapterArgWellFormed(op)

\* C10: a validation error for malformed or out-of-bounds cell or range text is fatal to
\* the operation: it is raised before any command is built, it is not retried, and
\* the operation does not go on to mutate the document on either path.
C10_ValidationErrorIsFatal ==
  valErr # "none" =>
     /\ pc = "done"
     /\ result = Failure(valErr)
     /\ LiveCommandsSubmitted = {}
     /\ liveApplied = 0
     /\ ~diskWritten

\* C11: on every attempt of the executor, each single quote of the assembled script is
\* neutralized before the script is wrapped in single quotes: the shell that parses the
\* launched command line hands osascript exactly one script argument, equal to the
\* original script text.
C11_ShellYieldsTheScriptAsOneArgument ==
  applied = "launch" =>
     \A k \in 1..Len(output) :
        /\ output[k].ok
        /\ output[k].words = <<Osascript, DashE, input>>

C11_Witness ==
  /\ applied = "launch"
  /\ Len(output) = MAX_RETRIES
  /\ input = <<"'", " ", "'">>

\* C12: every command sent on the live channel (probes, reads, mutations, save) is
\* submitted through execAppleScriptWithRetry, with the retries and the timeout of its
\* caller; no function hands a command to the process launcher directly.
C12_EveryCommandThroughExecutor ==
  /\ ex.kind # "none" => ex.via = "executor"
  /\ ex.kind \in { "probeRunning", "probeOpen" } =>
       (ex.retries = PROBE_RETRIES /\ ex.timeout = PROBE_TIMEOUT)
  /\ ex.kind \in LiveKinds => (ex.retries = MAX_RETRIES /\ ex.timeout = APPLESCRIPT_TIMEOUT)
  /\ launches > 0 => (cmdLog # <<>> /\ ex.kind = cmdLog[Len(cmdLog)])

C12_Witness ==
  /\ pc = "done"
  /\ op.kind = "addRow"
  /\ cmdLog = <<"probeRunning", "probeOpen", "read", "mutate", "save">>
  /\ result = Success("applescript")
  /\ launches > Len(cmdLog)

RECURSIVE ReadLiteral(_)
\* the body of a quoted literal read back: a backslash and the character after it stand
\* for that character; a double quote not behind a backslash ends the literal, and a
\* backslash with nothing behind it is malformed
ReadLiteral(body) ==
  IF body = <<>> THEN [ok |-> TRUE, text |-> <<>>]
  ELSE IF Head(body) = "\\"
       THEN IF Len(body) = 1 THEN [ok |-> FALSE, text |-> <<>>]
            ELSE LET rest == ReadLiteral(Tail(Tail(body))) IN
                   [ok |-> rest.ok, text |-> <<body[2]>> \o rest.text]
  ELSE IF Head(body) = "\"" THEN [ok |-> FALSE, text |-> <<>>]
  ELSE LET rest == ReadLiteral(Tail(body)) IN
         [ok |-> rest.ok, text |-> <<Head(body)>> \o rest.text]

CountOf(t, cs) == Cardinality({ i \in 1..Len(t) : t[i] \in cs })

\* C13: for every text of backslashes, double quotes, single quotes and ordinary
\* characters, reading escapeAppleScriptString(text) back as the body of a quoted
\* literal yields exactly the text, and the backslashes put in front of quotes are not
\* doubled: the result has two backslashes per backslash and one per quote of the text.
C13_EscapeReadsBackAsTheText ==
  applied = "escape" =>
     /\ ReadLiteral(output) = [ok |-> TRUE, text |-> input]
     /\ CountOf(output, {"\\"}) = 2 * CountOf(input, {"\\"}) + CountOf(input, {"\"", "'"})
     /\ Len(output) = Len(input) + CountOf(input, {"\\", "\"", "'"})

C13_Witness ==
  /\ applied = "escape"
  /\ input = <<"\"", "\\", "'">>
  /\ output = <<"\\", "\"", "\\", "\\", "\\", "'">>

\* C14: setFormula called with a formula text that lacks the leading '=' transmits to
\* the live application a formula text that begins with '='.
C14_TransmittedFormulaStartsWithMarker ==
  (applied = "setFormula" /\ input # <<>> /\ ~StartsWith(input, "=")) =>
     (ReadLiteral(output).ok /\ StartsWith(ReadLiteral(output).text, "="))

MutationsOf(o) == { i \in 1..Len(LiveCommands(o)) : LiveCommands(o)[i] = "mutate" }

SaveSubmitted == \E i \in 1..Len(cmdLog) : cmdLog[i] = "save"

\* C15: on the live path the save command is issued only after every mutation command
\* of the operation has succeeded, a result with method applescript is returned only
\* after the save command has succeeded, and no result is returned while a step of the
\* probe, mutate, persist sequence is pending.
C15_SaveAfterMutationsResultAfterSave ==
  /\ SaveSubmitted =>
       /\ cmdIdx = Len(LiveCommands(op))
       /\ liveApplied = Cardinality(MutationsOf(op))
       /\ cmdLog = <<"probeRunning", "probeOpen">> \o LiveCommands(op) \o <<"save">>
  /\ liveSaved => SaveSubmitted
  /\ result.method = "applescript" =>
       (liveSaved /\ ex.kind = "save" /\ ex.status = "returned")
  /\ result # NoResult => (pc = "done" /\ ex.status # "running")

C15_Witness ==
  /\ pc = "done"
  /\ op.kind = "writeRange"
  /\ op.n = 2 /\ op.m = 2
  /\ result = Success("applescript")
  /\ liveApplied = 4
  /\ launches > Len(cmdLog)

Persisted == diskWritten \/ liveSaved

\* C17: for every write operation invoked with createBackup = true on an existing file,
\* a copy of the original file exists at <path>.backup before the modification is
\* persisted, whichever execution path performs the modification.
C17_BackupBeforePersist ==
  (op.backup /\ Persisted /\ fileLog.backup # "accessFails") => fileLog.backup = "copied"

\* saveWorkbook was called by this operation and has returned or thrown
SaveWorkbookCalled == fileLog.backup # "none"

\* C18: saveWorkbook attempts the write of the document to its path in every case: no
\* backup requested, backup copied, backup copy failed, file not there yet; a failed
\* backup step never prevents or replaces the write.
C18_WriteAttemptedInEveryCase ==
  SaveWorkbookCalled =>
     /\ fileLog.writes = 1
     /\ fileLog.backup = "notRequested" <=> ~op.backup
     /\ result.error = "WriteError" => ~diskWritten
     /\ result.status = "success" => diskWritten

C18_Witness ==
  /\ pc = "done"
  /\ op.backup
  /\ fileLog = [loads |-> 1, backup |-> "copyFails", writes |-> 1]
  /\ diskWritten
  /\ result.status = "success"

\* what loadWorkbook and getSheet throw
LoadErrors == LoadOutcomes \ { "ok" }

\* C19: on the file path, when loading the document or resolving the sheet fails, the
\* operation returns that error after a single attempt: no retry, no other path, no
\* write and no backup, so the document on disk is unchanged.
C19_LoadFailureIsFinal ==
  result.error \in LoadErrors =>
     /\ pc = "done"
     /\ fileLog = [loads |-> 1, backup |-> "none", writes |-> 0]
     /\ ~fileLoaded
     /\ ~diskWritten
     /\ ~liveSaved
     /\ route[Len(route)] = "file"

C19_Witness ==
  /\ pc = "done"
  /\ op.backup
  /\ route = <<"file">>
  /\ result = Failure("SheetNotFound")
  /\ fileLog.loads = 1

\* both calls loaded the document before either of them saved it
BothLoadedFirst ==
  /\ Len(calls.log) >= 2
  /\ calls.log[1][2] = "load"
  /\ calls.log[2][2] = "load"

BothSucceeded == \A i \in CallIds : calls.st[i].result = "success"

\* C20: two file-path operations on the same document that overlap are not serialized:
\* each loads and rewrites the whole document, so when both load before either saves,
\* both return success and the stored document holds only the later writer's mutation.
C20_LastWriterWins ==
  /\ \A i \in CallIds : calls.st[i].pc = "called" => ENABLED LoadAndMutate(i)
  /\ (BothLoadedFirst /\ BothSucceeded) =>
        LET last == calls.log[4][1]
            later == calls.st[last]
        IN /\ calls.log[3][2] = "save" /\ calls.log[4][2] = "save"
           /\ disk = [StoredAtFirst EXCEPT ![later.cell] = later.value]

C20_Witness ==
  /\ BothLoadedFirst
  /\ BothSucceeded
  /\ calls.log = << <<1, "load">>, <<2, "load">>, <<1, "save">>, <<2, "save">> >>
  /\ calls.st[1].cell = "A1"
  /\ calls.st[2].cell = "B2"
  /\ disk["A1"] = 0
  /\ disk["B2"] # 0

\* the name of column i for i up to 702: A..Z, then AA..AZ, BA.. with no gap
TwoLetterColumn(i) ==
  IF i <= 26 THEN <<UpperChars[i]>>
  ELSE <<UpperChars[((i - 27) \div 26) + 1], UpperChars[((i - 27) % 26) + 1]>>

\* the row after the used row count the read returned (no answer: count 0)
NextRowText(read) ==
  CASE read = <<>> -> <<"1">>
    [] read = <<"0">> -> <<"1">>
    [] read = <<"3">> -> <<"4">>
    [] read = <<"1","2">> -> <<"1","3">>

\* C21: addRowViaAppleScript with a row of n values issues one read command and then,
\* while the commands are acknowledged, the n write commands in order, the i-th one
\* at column i (A..Z, then AA, AB, ..) of the row after the count the read returned;
\* for n = 30 the targets run from column A to column AD
C21_AddRowTargets ==
  applied = "addRowLive" =>
    /\ output.reads <= 1
    /\ Len(output.cmds) <= input.lens[1]
    /\ output.status = "ok" => (output.reads = 1 /\ Len(output.cmds) = input.lens[1])
    /\ Len(output.cmds) > 0 => output.reads = 1
    /\ \A i \in 1..Len(output.cmds) :
         /\ output.cmds[i].j = i
         /\ output.cmds[i].target = TwoLetterColumn(i) \o NextRowText(input.read)
    /\ (output.status = "ok" /\ input.lens[1] = 30) =>
         /\ output.cmds[1].target = <<"A">> \o NextRowText(input.read)
         /\ output.cmds[26].target = <<"Z">> \o NextRowText(input.read)
         /\ output.cmds[30].target = <<"A","D">> \o NextRowText(input.read)

C21_Witness ==
  /\ applied = "addRowLive"
  /\ output.status = "ok"
  /\ input.lens[1] = 30
  /\ input.read = <<"1","2">>
  /\ output.cmds[27].target = <<"A","A","1","3">>

\* the start and the end cell of the ranges writeRange is called with
StartOf(range) ==
  CASE range = A1B2 -> [row |-> 1, col |-> 1]
    [] range = Y2Z3 -> [row |-> 2, col |-> 25]
    [] range = B2B2 -> [row |-> 2, col |-> 2]

EndOf(range) ==
  CASE range = A1B2 -> [row |-> 2, col |-> 2]
    [] range = Y2Z3 -> [row |-> 3, col |-> 26]
    [] range = B2B2 -> [row |-> 2, col |-> 2]

\* the (row index, column index) pairs of the values of `data`
DataCells(lens) ==
  UNION { { <<i, j>> : j \in 0..(lens[i + 1] - 1) } : i \in 0..(Len(lens) - 1) }

RowMajorBefore(a, b) == a[1] < b[1] \/ (a[1] = b[1] /\ a[2] < b[2])

IndexOf(w) == <<w.i, w.j>>

\* C22: writeRangeViaAppleScript issues one write command per data cell in row-major
\* order, the one for data[i][j] at row r0 + i and column c0 + j of the start cell
\* (r0, c0), columns past Z named AA, AB, ..; the commands acknowledged before a
\* failure are the first ones of that order
C22_WriteRangeTargets ==
  applied = "writeRangeLive" =>
    LET s  == StartOf(input.range)
        cs == output.cmds
    IN  /\ \A k \in 1..Len(cs) :
             /\ IndexOf(cs[k]) \in DataCells(input.lens)
             /\ cs[k].target = TwoLetterColumn(s.col + cs[k].j)
                                 \o <<DigitChars[s.row + cs[k].i + 1]>>
             /\ \A d \in DataCells(input.lens) :
                  RowMajorBefore(d, IndexOf(cs[k])) =>
                    \E h \in 1..(k - 1) : IndexOf(cs[h]) = d
        /\ \A k, h \in 1..Len(cs) :
             k < h => RowMajorBefore(IndexOf(cs[k]), IndexOf(cs[h]))
        /\ output.status = "ok" =>
             { IndexOf(cs[k]) : k \in 1..Len(cs) } = DataCells(input.lens)

C22_Witness ==
  /\ applied = "writeRangeLive"
  /\ output.status = "ok"
  /\ input.range = Y2Z3
  /\ input.lens = <<3, 1>>
  /\ output.cmds[3].target = <<"A","A","2">>
  /\ output.cmds[4].target = <<"Y","3">>

\* C30: writeRange modifies only cells inside the range it was given: on either path
\* no write lands beyond the end cell of the range
C30_WritesOnlyInsideRange ==
  applied \in { "writeRangeLive", "writeRangeFile" } =>
    \A k \in 1..Len(output.cmds) :
       /\ output.cmds[k].row >= StartOf(input.range).row
       /\ output.cmds[k].col >= StartOf(input.range).col
       /\ output.cmds[k].row <= EndOf(input.range).row
       /\ output.cmds[k].col <= EndOf(input.range).col

\* the rows of a sheet of `rows` used rows that are outside the block
\* startRow .. startRow + count - 1, in their order: every row below the block has
\* moved up by count
BlockRemoved(rows, startRow, count) ==
  LET gone == (startRow..(startRow + count - 1)) \cap (1..rows)
  IN  [k \in 1..(rows - Cardinality(gone)) |-> IF k < startRow THEN k ELSE k + count]

\* C29: for count >= 1 the count commands `delete row startRow` of the live path and
\* the single spliceRows(startRow, count) of the file path leave the same sheet: the
\* rows startRow .. startRow + count - 1 are gone and every later row is count higher
C29_DeleteRowsPathsAgree ==
  (/\ applied \in { "deleteRowsLive", "deleteRowsFile" }
   /\ output.status = "ok"
   /\ input.count >= 1) =>
    /\ output.sheet = BlockRemoved(input.rows, input.startRow, input.count)
    /\ applied = "deleteRowsLive" =>
         /\ Len(output.cmds) = input.count
         /\ output.sheet = spliceRows(InitialSheet(input.rows), input.startRow,
                                      input.count)

C29_Witness ==
  /\ applied = "deleteRowsLive"
  /\ output.status = "ok"
  /\ input.rows = 4
  /\ input.startRow = 2
  /\ input.count = 2
  /\ output.cmds = <<2, 2>>
  /\ output.sheet = <<1, 4>>

\* C23: formatValueForAppleScript gives a number as its digits with no quote, and a
\* text as a double quote, the escaped text and a double quote, so that the number 42
\* and the text "42" give different tokens
C23_NumbersBareTextsQuoted ==
  applied = "format" =>
    /\ input.isNum =>
         /\ \A k \in 1..Len(output) : output[k] \in { "-" } \cup { DigitChars[d] : d \in 1..10 }
         /\ Len(output) >= 1
         /\ input.num >= 0 => parseInt(output) = input.num
         /\ input.num < 0 => (output[1] = "-" /\ parseInt(Tail(output)) = 0 - input.num)
    /\ ~input.isNum =>
         /\ Len(output) >= 2
         /\ output[1] = "\""
         /\ output[Len(output)] = "\""
         /\ ReadLiteral(SubSeq(output, 2, Len(output) - 1)) = [ok |-> TRUE, text |-> input.text]
    /\ (input.isNum /\ input.num = 42) => output = <<"4","2">>
    /\ (~input.isNum /\ input.text = <<"4","2">>) => output = <<"\"","4","2","\"">>

C23_Witness ==
  /\ applied = "format"
  /\ input.isNum
  /\ input.num = 42
  /\ output = <<"4","2">>

RECURSIVE PlaceValue(_, _, _)
\* the number a text of letters (base 26, A = 1) or of digits (base 10) stands for,
\* read from its last character
PlaceValue(t, base, letters) ==
  IF t = <<>> THEN 0
  ELSE (IF letters THEN LetterValue(t[Len(t)]) ELSE DigitValue(t[Len(t)]))
       + base * PlaceValue(SubSeq(t, 1, Len(t) - 1), base, letters)

\* one or more uppercase letters, then one or more digits, the column at most 16384
\* and the row between 1 and 1048576
WellFormedAddress(t) ==
  \E k \in 1..(Len(t) - 1) :
     /\ \A n \in 1..k : t[n] \in { UpperChars[c] : c \in 1..26 }
     /\ \A n \in (k + 1)..Len(t) : t[n] \in { DigitChars[d] : d \in 1..10 }
     /\ PlaceValue(SubSeq(t, 1, k), 26, TRUE) <= 16384
     /\ PlaceValue(SubSeq(t, k + 1, Len(t)), 10, FALSE) \in 1..1048576

\* C24: validateCellAddress accepts exactly the texts of uppercase letters followed by
\* digits with a column of at most 16384 and a row in 1..1048576: A1 and AA27 (column
\* 27) pass, and a1, A1:B2, a column past XFD, row 0 and row 1048577 are rejected
C24_AcceptsExactlyWellFormed ==
  applied = "validate" =>
    /\ (output.result = "ok") <=> WellFormedAddress(input.text)
    /\ input.text = A1 => (output.result = "ok" /\ output.column = 1 /\ output.row = 1)
    /\ input.text = AA27 =>
         (output.result = "ok" /\ output.column = 27 /\ output.row = 27)
    /\ input.text \in { XFD1, A1048576 } => output.result = "ok"
    /\ input.text \in { LowerA1, A1B2, XFE1, A0, A1048577 } => output.result # "ok"

C24_Witness ==
  /\ applied = "validate"
  /\ input.text = XFE1
  /\ output.result = "ColumnTooLarge"

\* C25: for every column number n from 1 to 16384,
\* columnLetterToNumber(columnNumberToLetter(n)) is n
C25_ColumnRoundTrip ==
  applied = "roundTrip" =>
    /\ output.back = input.num
    /\ output.adapter = input.num
    /\ Len(output.letter) \in 1..3
    /\ \A k \in 1..Len(output.letter) : IsUpper(output.letter[k])

C25_Witness ==
  /\ applied = "roundTrip"
  /\ input.num = 16384
  /\ output.letter = <<"X","F","D">>
  /\ output.back = 16384

\* C28: when an operation with a fallback (deleteRows, deleteColumns, insertRows,
\* insertColumns, unmergeCells) returns success after its live attempt failed, the
\* mutation is in one place only: the file path wrote it to the stored document and the
\* live document took none of the operation's commands
C28_FallbackAppliesOnce ==
  (/\ pc = "done"
   /\ HasFallback(op.kind)
   /\ liveErr # "none"
   /\ result.status = "success") =>
     /\ route = <<"live", "file">>
     /\ diskWritten
     /\ liveApplied = 0
     /\ ~liveSaved

RECURSIVE SumOf(_)
SumOf(q) == IF q = <<>> THEN 0 ELSE Head(q) + SumOf(Tail(q))

\* the longest a call can have taken so far: every attempt made ran to its timeout
LongestSoFar(call) == Len(call.log) * call.timeout + SumOf(call.sleeps)

C27_Bounded ==
  /\ Len(ex.log) <= ex.retries
  /\ ex.retries <= MAX_RETRIES
  /\ (ex.retries = MAX_RETRIES /\ ex.timeout = 10000) =>
        LongestSoFar(ex) <= 3 * 10000 + 500 + 1000
  /\ \A k \in 1..Len(ex.log) :
        (ex.log[k].res = "timeout" /\ k < ex.retries) =>
           \/ Len(ex.log) > k
           \/ (ex.status = "running" /\ ex.attempt = k + 1)
  /\ ex.status = "raised" => Len(ex.log) = ex.retries

\* C27: every call of execAppleScriptWithRetry ends: with 3 retries and the 10 s timeout
\* it returns or raises after at most 3 attempts, within 3 timeouts and the two sleeps
\* of 500 and 1000 ms; an attempt that timed out is followed by the next attempt while
\* attempts remain, the call raises only after the last one
C27_EveryCallEnds ==
  /\ []C27_Bounded
  /\ (ex.status = "running") ~> Finished(ex)

C27_Witness ==
  /\ ex.status = "returned"
  /\ ex.retries = MAX_RETRIES
  /\ Len(ex.log) = 3
  /\ ex.log[1].res = "timeout"
  /\ ex.log[2].res = "timeout"
  /\ LongestSoFar(ex) = 31500

\* C26: isFileOpenInExcel sees its path only through the file name: in one state of the
\* application two paths with the same file name get the same answer, so an operation
\* on a document that is not open takes the live path when the probe finds another
\* document of the same name open, and its commands address that workbook
C26_SameNameSameAnswer ==
  /\ \A p \in OpPaths \cup TwinDocs, q \in OpPaths \cup TwinDocs :
       p.base = q.base => (AddressableAs(p) <=> AddressableAs(q))
  /\ op.path \notin openWorkbooks
  /\ (ex.kind = "probeOpen" /\ ex.status = "running") =>
       (ENABLED ExecAttemptSucceeds =>
          (CommandOutputs("probeOpen") = { "true" }
             <=> \E w \in openWorkbooks : w.base = op.path.base))
  /\ PastProbes =>
       /\ seen.open = "yes" => (fileOpen /\ route[1] = "live")
       /\ route[1] = "live" => seen.open = "yes"

C26_Witness ==
  /\ pc = "done"
  /\ op.kind = "updateCell"
  /\ op.path = [dir |-> "a", base |-> "x.xlsx"]
  /\ openWorkbooks = { [dir |-> "b", base |-> "x.xlsx"] }
  /\ route = <<"live">>
  /\ liveApplied = 1
  /\ liveSaved
  /\ ~diskWritten
  /\ result.status = "success"

=============================================================================
